---- MODULE Spec2Model ----
(***************************************************************************)
(* Model of the network client of docker-api-rs (src/src/network.rs) and   *)
(* of the attach example (src/examples/attach.rs).                         *)
(*                                                                         *)
(* Text is a sequence of atoms: an atom is one character, or a run of      *)
(* alphanumeric characters that no encoder touches ("Name", "networks").   *)
(* A HashMap is a sequence of entries [k, v] with pairwise different keys; *)
(* the order of the sequence is the map's iteration order, which the       *)
(* program does not control, so every order is drawn.                      *)
(*                                                                         *)
(* The parts of the program are independent of each other (the option      *)
(* values, the builders, the client methods, the attach loop, the response *)
(* decoding), so each has a specification of its own over the variables it *)
(* uses; the other variables rest at their initial value.                  *)
(***************************************************************************)
EXTENDS Integers, Sequences, FiniteSets, TLC

VARIABLES
    listOpts,    \* NetworkListOptions.params
    listQuery,   \* what NetworkListOptions::serialize returned
    heap,        \* the params maps that exist, by address (1..Len(heap))
    ncb,         \* the NetworkCreateOptionsBuilder: its map's address, the calls made
    ccb,         \* the ContainerConnectionOptionsBuilder: likewise
    built,       \* the options values build() returned, in order
    wire,        \* the last serialize() of a built options value
    body,        \* a response body: the JSON the daemon holds and the text it sends
    decoded,     \* what serde_json::from_str::<NetworkDetails> made of the body
    known,       \* the networks the daemon knows
    pc,          \* "idle", or "awaiting": a client method awaits the transport
    call,        \* the client method called last: [op, id, opts]
    sent,        \* the requests issued for that call
    outcome,     \* how its round trip ended
    result,      \* what the method returned to its caller
    frames,      \* the frames the daemon wrote to the attach stream
    stream,      \* the bytes of the attach stream not read yet
    readerOpen,  \* whether the read-half still yields items
    received,    \* the items reader.next() gave to main, in order
    printed,     \* the lines main wrote: [fd, prefix, text]
    mainpc       \* main of the attach example: "loop", "done" or "panicked"

vars == <<listOpts, listQuery, heap, ncb, ccb, built, wire, body, decoded,
          known, pc, call, sent, outcome, result,
          frames, stream, readerOpen, received, printed, mainpc>>

\* ---------------------------------------------------------------- bounds
MaxLen == 2          \* longest filter value drawn
MaxCalls == 3        \* setter calls made on the builders of one run
MaxBuilt == 1        \* build() calls of one run
MaxFrames == 2       \* frames on an attach stream
MaxPayload == 1      \* bytes in the payload of a drawn frame

\* ------------------------------------------------------------- sequences
RECURSIVE Flatten(_)
Flatten(ss) == IF ss = <<>> THEN <<>> ELSE Head(ss) \o Flatten(Tail(ss))

RECURSIVE JoinWith(_, _)
JoinWith(ss, sep) ==
    IF ss = <<>> THEN <<>>
    ELSE IF Len(ss) = 1 THEN ss[1]
    ELSE ss[1] \o sep \o JoinWith(Tail(ss), sep)

IndexOf(s, c) ==
    IF \E i \in 1..Len(s) : s[i] = c
    THEN CHOOSE i \in 1..Len(s) : s[i] = c /\ \A j \in 1..(i-1) : s[j] # c
    ELSE 0

RECURSIVE SplitOn(_, _)
SplitOn(s, c) ==
    LET i == IndexOf(s, c) IN
    IF i = 0 THEN <<s>>
    ELSE <<SubSeq(s, 1, i-1)>> \o SplitOn(SubSeq(s, i+1, Len(s)), c)

SeqsUpTo(S, n) == UNION {[1..m -> S] : m \in 0..n}

Keys(entries) == {entries[i].k : i \in 1..Len(entries)}
UniqueKeys(entries) ==
    \A i, j \in 1..Len(entries) : entries[i].k = entries[j].k => i = j
ContainsKey(entries, k) == \E i \in 1..Len(entries) : entries[i].k = k
Lookup(entries, k) == entries[CHOOSE i \in 1..Len(entries) : entries[i].k = k].v
LastValue(calls, k) ==
    calls[CHOOSE i \in 1..Len(calls) :
             calls[i].k = k /\ \A j \in (i+1)..Len(calls) : calls[j].k # k].v

DQ == "\""
BS == "\\"

\* ------------------------------------------- application/x-www-form-urlencoded
\* form_urlencoded::byte_serialize: alphanumerics and * - . _ unchanged,
\* a space becomes +, every other byte %XX.
PercentTable ==
    { <<"&", <<"%", "2", "6">> >>, <<"=", <<"%", "3", "D">> >>,
      <<"%", <<"%", "2", "5">> >>, <<"+", <<"%", "2", "B">> >> }

byte_serialize(c) ==
    IF c = " " THEN <<"+">>
    ELSE IF \E p \in PercentTable : p[1] = c
    THEN (CHOOSE p \in PercentTable : p[1] = c)[2]
    ELSE <<c>>

UrlEncode(s) == Flatten([i \in 1..Len(s) |-> byte_serialize(s[i])])

\* Serializer::extend_pairs + finish: name=value pairs joined by &
extend_pairs(entries) ==
    JoinWith([i \in 1..Len(entries) |->
                 UrlEncode(entries[i].k) \o <<"=">> \o UrlEncode(entries[i].v)],
             <<"&">>)

\* form_urlencoded::parse, the decoder of that format
RECURSIVE UrlDecode(_)
UrlDecode(s) ==
    IF s = <<>> THEN <<>>
    ELSE IF s[1] = "+" THEN <<" ">> \o UrlDecode(Tail(s))
    ELSE IF s[1] = "%" /\ Len(s) >= 3
            /\ \E p \in PercentTable : p[2] = SubSeq(s, 1, 3)
    THEN <<(CHOOSE p \in PercentTable : p[2] = SubSeq(s, 1, 3))[1]>>
             \o UrlDecode(SubSeq(s, 4, Len(s)))
    ELSE <<s[1]>> \o UrlDecode(Tail(s))

ParsePair(piece) ==
    LET i == IndexOf(piece, "=") IN
    IF i = 0 THEN [k |-> UrlDecode(piece), v |-> <<>>]
    ELSE [k |-> UrlDecode(SubSeq(piece, 1, i-1)),
          v |-> UrlDecode(SubSeq(piece, i+1, Len(piece)))]

ParseQuery(s) ==
    LET pieces == SelectSeq(SplitOn(s, "&"), LAMBDA p : p # <<>>)
    IN  [i \in 1..Len(pieces) |-> ParsePair(pieces[i])]

\* ------------------------------------------------------ NetworkListOptions
None == [some |-> FALSE, s |-> <<>>]
Some(s) == [some |-> TRUE, s |-> s]

\* the pairs joined as they are, with no encoding
NetworkListOptions_serialize_raw(params) ==
    IF params = <<>> THEN None
    ELSE Some(JoinWith([i \in 1..Len(params) |->
                           params[i].k \o <<"=">> \o params[i].v], <<"&">>))

NetworkListOptions_serialize(params) ==
    IF params = <<>> THEN None ELSE Some(extend_pairs(params))

\* ------------------------------------------------------- serde_json::Value
\* A JSON value is [t, s, kids]: t its type, s the text of a string, kids the
\* members of an object ([k, v]) or the elements of an array ([k |-> <<>>, v]).
JStr(s) == [t |-> "str", s |-> s, kids |-> <<>>]
JBool(b) == [t |-> IF b THEN "true" ELSE "false", s |-> <<>>, kids |-> <<>>]
JNull == [t |-> "null", s |-> <<>>, kids |-> <<>>]
JNum(digits) == [t |-> "num", s |-> <<digits>>, kids |-> <<>>]
NumAtoms == {"0", "1", "64"}
JObj(entries) == [t |-> "obj", s |-> <<>>, kids |-> entries]
JArr(vs) == [t |-> "arr", s |-> <<>>,
             kids |-> [i \in 1..Len(vs) |-> [k |-> <<>>, v |-> vs[i]]]]

\* serde_json's string escaping: a quote and a backslash get a backslash
EscapeChar(c) == IF c = DQ \/ c = BS THEN <<BS, c>> ELSE <<c>>
JsonString(s) ==
    <<DQ>> \o Flatten([i \in 1..Len(s) |-> EscapeChar(s[i])]) \o <<DQ>>

\* serde_json::to_string of a value: the compact form
RECURSIVE to_string(_)
to_string(v) ==
    CASE v.t = "str" -> JsonString(v.s)
      [] v.t = "num" -> v.s
      [] v.t = "arr" ->
            <<"[">> \o JoinWith([i \in 1..Len(v.kids) |-> to_string(v.kids[i].v)],
                                <<",">>) \o <<"]">>
      [] v.t = "obj" ->
            <<"{">> \o JoinWith([i \in 1..Len(v.kids) |->
                                    JsonString(v.kids[i].k) \o <<":">>
                                        \o to_string(v.kids[i].v)],
                                <<",">>) \o <<"}">>
      [] OTHER -> <<v.t>>

\* serde_json::from_str into a generic Value: a recursive-descent parser.
\* A parse is [ok, v, n]: the value read and the index after it.
Fail == [ok |-> FALSE, v |-> JNull, n |-> 0]
At(txt, i) == IF i \in 1..Len(txt) THEN txt[i] ELSE "EOF"

RECURSIVE ScanString(_, _, _)
ScanString(txt, j, acc) ==
    IF j > Len(txt) THEN Fail
    ELSE IF txt[j] = DQ THEN [ok |-> TRUE, v |-> JStr(acc), n |-> j + 1]
    ELSE IF txt[j] = BS
         THEN IF j + 1 > Len(txt) THEN Fail
              ELSE ScanString(txt, j + 2, Append(acc, txt[j + 1]))
    ELSE ScanString(txt, j + 1, Append(acc, txt[j]))

RECURSIVE ParseValue(_, _), ParseMembers(_, _, _), ParseElements(_, _, _)
ParseValue(txt, i) ==
    CASE At(txt, i) = DQ -> ScanString(txt, i + 1, <<>>)
      [] At(txt, i) = "{" ->
            IF At(txt, i + 1) = "}"
            THEN [ok |-> TRUE, v |-> JObj(<<>>), n |-> i + 2]
            ELSE ParseMembers(txt, i + 1, <<>>)
      [] At(txt, i) = "[" ->
            IF At(txt, i + 1) = "]"
            THEN [ok |-> TRUE, v |-> JArr(<<>>), n |-> i + 2]
            ELSE ParseElements(txt, i + 1, <<>>)
      [] At(txt, i) = "true" -> [ok |-> TRUE, v |-> JBool(TRUE), n |-> i + 1]
      [] At(txt, i) = "false" -> [ok |-> TRUE, v |-> JBool(FALSE), n |-> i + 1]
      [] At(txt, i) = "null" -> [ok |-> TRUE, v |-> JNull, n |-> i + 1]
      [] At(txt, i) \in NumAtoms -> [ok |-> TRUE, v |-> JNum(txt[i]), n |-> i + 1]
      [] OTHER -> Fail

ParseMembers(txt, i, acc) ==
    IF At(txt, i) # DQ THEN Fail
    ELSE LET key == ScanString(txt, i + 1, <<>>) IN
         IF ~key.ok \/ At(txt, key.n) # ":" THEN Fail
         ELSE LET val == ParseValue(txt, key.n + 1) IN
              IF ~val.ok THEN Fail
              ELSE LET more == Append(acc, [k |-> key.v.s, v |-> val.v]) IN
                   IF At(txt, val.n) = "," THEN ParseMembers(txt, val.n + 1, more)
                   ELSE IF At(txt, val.n) = "}"
                        THEN [ok |-> TRUE, v |-> JObj(more), n |-> val.n + 1]
                   ELSE Fail

ParseElements(txt, i, acc) ==
    LET val == ParseValue(txt, i) IN
    IF ~val.ok THEN Fail
    ELSE LET more == Append(acc, val.v) IN
         IF At(txt, val.n) = "," THEN ParseElements(txt, val.n + 1, more)
         ELSE IF At(txt, val.n) = "]"
              THEN [ok |-> TRUE, v |-> JArr(more), n |-> val.n + 1]
         ELSE Fail

from_str(txt) ==
    LET r == ParseValue(txt, 1) IN
    IF r.ok /\ r.n = Len(txt) + 1 THEN r ELSE Fail

\* ------------------------------------------------------------ the builders
\* HashMap::insert: the value of an existing key is replaced, a new key is added
insert(params, k, v) ==
    IF ContainsKey(params, k)
    THEN [i \in 1..Len(params) |->
             IF params[i].k = k THEN [k |-> k, v |-> v] ELSE params[i]]
    ELSE Append(params, [k |-> k, v |-> v])

\* impl_str_field!(name: T => "Key"): the setter stores the string under the key
impl_str_field(params, key, s) == insert(params, key, JStr(s))

\* impl_map_field!(name: T => "Key"): the setter stores the map under the key
impl_map_field(params, key, m) == insert(params, key, JObj(m))

NetworkCreateOptionsBuilder_new(name) == insert(<<>>, <<"Name">>, JStr(name))
driver(params, d) == impl_str_field(params, <<"Driver">>, d)
labels(params, l) == impl_map_field(params, <<"Labels">>, l)

ContainerConnectionOptionsBuilder_new(container_id) ==
    insert(<<>>, <<"Container">>, JStr(container_id))

EndpointConfig(a) ==
    JObj(<<[k |-> <<"Aliases">>, v |-> JArr([i \in 1..Len(a) |-> JStr(a[i])])]>>)

\* a setter that keeps the first value of a key
aliases_keep_first(params, a) ==
    IF ContainsKey(params, <<"EndpointConfig">>) THEN params
    ELSE Append(params, [k |-> <<"EndpointConfig">>, v |-> EndpointConfig(a)])

aliases(params, a) == insert(params, <<"EndpointConfig">>, EndpointConfig(a))

force(params) == insert(params, <<"Force">>, JBool(TRUE))

\* build() hands out the builder's own map instead of a copy
clone_shared(h, ref) == [heap |-> h, ref |-> ref]

\* self.params.clone(): a new map with the same entries
clone(h, ref) == [heap |-> Append(h, h[ref]), ref |-> Len(h) + 1]

\* the struct itself serialized, {"params":{...}}, as its derive(Serialize) would
NetworkCreateOptions_serialize_struct(params) ==
    to_string(JObj(<<[k |-> <<"params">>, v |-> JObj(params)]>>))

\* serde_json::to_string(&self.params)
NetworkCreateOptions_serialize(params) == to_string(JObj(params))

ContainerConnectionOptions_serialize(params) == to_string(JObj(params))

\* ------------------------------------------------- the response structures
\* A type is [kind, ...]; a struct is [rename_all, deny_unknown_fields, fields],
\* a field [rust, rename, ty]: its Rust name in words, its serde(rename) if any.
TStr == [kind |-> "str"]
TBool == [kind |-> "bool"]
TU64 == [kind |-> "u64"]
TMap(T) == [kind |-> "map", of |-> T]
TVec(T) == [kind |-> "vec", of |-> T]
TOpt(T) == [kind |-> "option", of |-> T]
TStruct(S) == [kind |-> "struct", def |-> S]
Field(rust, ty) == [rust |-> rust, rename |-> <<>>, ty |-> ty]
Renamed(rust, rename, ty) == [rust |-> rust, rename |-> rename, ty |-> ty]

\* network.rs:308-314
Ipam ==
    [rename_all |-> "PascalCase", deny_unknown_fields |-> FALSE,
     fields |-> << Field(<<"driver">>, TStr),
                   Field(<<"config">>, TVec(TMap(TStr))),
                   Field(<<"options">>, TOpt(TMap(TStr))) >>]

\* network.rs:334-344
NetworkContainerDetails ==
    [rename_all |-> "PascalCase", deny_unknown_fields |-> FALSE,
     fields |-> << Renamed(<<"endpoint", "id">>, <<"Endpoint", "ID">>, TStr),
                   Field(<<"mac", "address">>, TStr),
                   Renamed(<<"ipv4", "address">>, <<"IPv4", "Address">>, TStr),
                   Renamed(<<"ipv6", "address">>, <<"IPv6", "Address">>, TStr) >>]

NetworkDetailsFields ==
    << Field(<<"name">>, TStr),
       Field(<<"id">>, TStr),
       Field(<<"scope">>, TStr),
       Field(<<"driver">>, TStr),
       Renamed(<<"enable", "ipv6">>, <<"Enable", "IPv6">>, TBool),
       Renamed(<<"ipam">>, <<"IPAM">>, TStruct(Ipam)),
       Field(<<"internal">>, TBool),
       Field(<<"attachable">>, TBool),
       Field(<<"containers">>, TMap(TStruct(NetworkContainerDetails))),
       Field(<<"options">>, TOpt(TMap(TStr))),
       Field(<<"labels">>, TOpt(TMap(TStr))) >>

\* the struct as it would be with #[serde(deny_unknown_fields)]
NetworkDetails_deny_unknown ==
    [rename_all |-> "PascalCase", deny_unknown_fields |-> TRUE,
     fields |-> NetworkDetailsFields]

\* network.rs:316-332
NetworkDetails ==
    [rename_all |-> "PascalCase", deny_unknown_fields |-> FALSE,
     fields |-> NetworkDetailsFields]

\* network.rs:296-306: no rename_all, the fields keep their Rust names
NetworkInfo ==
    [rename_all |-> "none", deny_unknown_fields |-> FALSE,
     fields |-> << Field(<<"rx", "dropped">>, TU64),
                   Field(<<"rx", "bytes">>, TU64),
                   Field(<<"rx", "errors">>, TU64),
                   Field(<<"tx", "packets">>, TU64),
                   Field(<<"tx", "dropped">>, TU64),
                   Field(<<"rx", "packets">>, TU64),
                   Field(<<"tx", "errors">>, TU64),
                   Field(<<"tx", "bytes">>, TU64) >>]

\* network.rs:346-351
NetworkCreateInfo ==
    [rename_all |-> "PascalCase", deny_unknown_fields |-> FALSE,
     fields |-> << Field(<<"id">>, TStr), Field(<<"warning">>, TStr) >>]

\* serde's rename_all = "PascalCase": each word of the snake_case name capitalised
Capitalised ==
    { <<"name", "Name">>, <<"id", "Id">>, <<"scope", "Scope">>,
      <<"driver", "Driver">>, <<"enable", "Enable">>, <<"ipv6", "Ipv6">>,
      <<"ipv4", "Ipv4">>, <<"ipam", "Ipam">>, <<"internal", "Internal">>,
      <<"attachable", "Attachable">>, <<"containers", "Containers">>,
      <<"options", "Options">>, <<"labels", "Labels">>, <<"config", "Config">>,
      <<"endpoint", "Endpoint">>, <<"mac", "Mac">>, <<"address", "Address">>,
      <<"warning", "Warning">> }
Capitalise(w) == (CHOOSE p \in Capitalised : p[1] = w)[2]

\* the JSON name of a field: its rename, or its Rust name under rename_all
JsonName(S, f) ==
    IF f.rename # <<>> THEN f.rename
    ELSE IF S.rename_all = "PascalCase"
         THEN [i \in 1..Len(f.rust) |-> Capitalise(f.rust[i])]
    ELSE JoinWith([i \in 1..Len(f.rust) |-> <<f.rust[i]>>], <<"_">>)

Occurrences(kids, name) == {i \in 1..Len(kids) : kids[i].k = name}

\* derive(Deserialize): [ok, v]. A struct decodes to the object of its fields by
\* Rust name; a missing Option field and null decode to None (JNull); a missing
\* field of another type, a duplicate field or a value of the wrong type is an
\* error; a key that is no field is skipped unless deny_unknown_fields.
RECURSIVE Deserialize(_, _)
Deserialize(ty, v) ==
    CASE ty.kind = "str" -> [ok |-> v.t = "str", v |-> v]
      [] ty.kind = "bool" -> [ok |-> v.t \in {"true", "false"}, v |-> v]
      [] ty.kind = "u64" -> [ok |-> v.t = "num", v |-> v]
      [] ty.kind = "option" ->
            IF v.t = "null" THEN [ok |-> TRUE, v |-> JNull]
            ELSE Deserialize(ty.of, v)
      [] ty.kind = "vec" ->
            LET each == [i \in 1..Len(v.kids) |-> Deserialize(ty.of, v.kids[i].v)] IN
            IF v.t = "arr" /\ \A i \in 1..Len(each) : each[i].ok
            THEN [ok |-> TRUE, v |-> JArr([i \in 1..Len(each) |-> each[i].v])]
            ELSE [ok |-> FALSE, v |-> JNull]
      [] ty.kind = "map" ->
            LET each == [i \in 1..Len(v.kids) |-> Deserialize(ty.of, v.kids[i].v)] IN
            IF v.t = "obj" /\ \A i \in 1..Len(each) : each[i].ok
            THEN [ok |-> TRUE,
                  v |-> JObj([i \in 1..Len(each) |->
                                 [k |-> v.kids[i].k, v |-> each[i].v]])]
            ELSE [ok |-> FALSE, v |-> JNull]
      [] ty.kind = "struct" ->
            LET S == ty.def
                names == {JsonName(S, S.fields[i]) : i \in 1..Len(S.fields)}
                field(i) ==
                    LET f == S.fields[i]
                        at == Occurrences(v.kids, JsonName(S, f)) IN
                    IF Cardinality(at) > 1 THEN [ok |-> FALSE, v |-> JNull]
                    ELSE IF at = {}
                         THEN [ok |-> f.ty.kind = "option", v |-> JNull]
                    ELSE Deserialize(f.ty, v.kids[CHOOSE i2 \in at : TRUE].v)
                each == [i \in 1..Len(S.fields) |-> field(i)]
            IN  IF /\ v.t = "obj"
                   /\ S.deny_unknown_fields => \A i \in 1..Len(v.kids) : v.kids[i].k \in names
                   /\ \A i \in 1..Len(each) : each[i].ok
                THEN [ok |-> TRUE,
                      v |-> JObj([i \in 1..Len(each) |->
                                     [k |-> S.fields[i].rust, v |-> each[i].v]])]
                ELSE [ok |-> FALSE, v |-> JNull]

\* serde_json::from_str::<T>(text)
from_str_as(ty, text) ==
    LET r == from_str(text) IN
    IF r.ok THEN Deserialize(ty, r.v) ELSE [ok |-> FALSE, v |-> JNull]

\* ------------------------------------------------------ the daemon's JSON
\* The network object of the Docker Engine API (NetworkInspect): the fields the
\* client documents in NetworkDetails, and fields it does not know.
IpamJson ==
    JObj(<< [k |-> <<"Driver">>, v |-> JStr(<<"default">>)],
            [k |-> <<"Options">>, v |-> JNull],
            [k |-> <<"Config">>,
             v |-> JArr(<<JObj(<<[k |-> <<"Subnet">>, v |-> JStr(<<"172.18.0.0/16">>)]>>)>>)] >>)

ContainersJson ==
    JObj(<< [k |-> <<"c1">>,
             v |-> JObj(<< [k |-> <<"Name">>, v |-> JStr(<<"web">>)],
                           [k |-> <<"Endpoint", "ID">>, v |-> JStr(<<"e1">>)],
                           [k |-> <<"Mac", "Address">>, v |-> JStr(<<"02:42">>)],
                           [k |-> <<"IPv4", "Address">>, v |-> JStr(<<"172.18.0.2/16">>)],
                           [k |-> <<"IPv6", "Address">>, v |-> JStr(<<>>)] >>)] >>)

DocumentedJson(id, name, v6, labelsJson) ==
    << [k |-> <<"Name">>, v |-> JStr(name)],
       [k |-> <<"Id">>, v |-> JStr(id)],
       [k |-> <<"Scope">>, v |-> JStr(<<"local">>)],
       [k |-> <<"Driver">>, v |-> JStr(<<"bridge">>)],
       [k |-> <<"Enable", "IPv6">>, v |-> JBool(v6)],
       [k |-> <<"IPAM">>, v |-> IpamJson],
       [k |-> <<"Internal">>, v |-> JBool(FALSE)],
       [k |-> <<"Attachable">>, v |-> JBool(FALSE)],
       [k |-> <<"Containers">>, v |-> ContainersJson],
       [k |-> <<"Options">>, v |-> JObj(<<>>)],
       [k |-> <<"Labels">>, v |-> labelsJson] >>

ExtraFields ==
    { [k |-> <<"Created">>, v |-> JStr(<<"2021-01-01T00:00:00Z">>)],
      [k |-> <<"Ingress">>, v |-> JBool(FALSE)] }
ExtraLists ==
    {e \in SeqsUpTo(ExtraFields, Cardinality(ExtraFields)) : UniqueKeys(e)}
LabelsJson ==
    {JNull, JObj(<<>>), JObj(<<[k |-> <<"env">>, v |-> JStr(<<"a", DQ>>)]>>)}
Droppable == {<<>>, <<"Scope">>, <<"IPAM">>, <<"Labels">>}

NetworkJson(id, name, v6, labelsJson, front, back, dropped) ==
    JObj(front
         \o SelectSeq(DocumentedJson(id, name, v6, labelsJson), LAMBDA e : e.k # dropped)
         \o back)

\* ------------------------------------------------ the daemon (Docker Engine)
\* What the daemon answers to a request, given the networks it knows: a set of
\* [status, text, known], known being the networks it knows afterwards.
Ids == {<<"n1">>, <<"n2">>}
DaemonExtras == << [k |-> <<"Created">>, v |-> JStr(<<"2021-01-01T00:00:00Z">>)],
                   [k |-> <<"Ingress">>, v |-> JBool(FALSE)] >>
DaemonNetwork(id) ==
    NetworkJson(id, <<"net">>, FALSE, JNull, <<>>, DaemonExtras, <<>>)
ErrorText(msg) == to_string(JObj(<<[k |-> <<"message">>, v |-> JStr(<<msg>>)]>>))
Answer(status, text, nets) == [status |-> status, text |-> text, known |-> nets]

RECURSIVE SetToSeq(_)
SetToSeq(S) ==
    IF S = {} THEN <<>>
    ELSE LET x == CHOOSE y \in S : TRUE IN <<x>> \o SetToSeq(S \ {x})

Segments(path) == SplitOn(SplitOn(path, "?")[1], "/")

DaemonAnswers(req, nets) ==
    LET segs == Segments(req.path)
        n == Len(segs)
        onNetworks == n >= 2 /\ segs[1] = <<>> /\ segs[2] = <<"networks">>
    IN
    CASE onNetworks /\ n = 2 /\ req.method = "GET" ->
            { Answer(200, to_string(JArr([i \in 1..Cardinality(nets) |->
                                             DaemonNetwork(SetToSeq(nets)[i])])), nets),
              Answer(500, ErrorText("server error"), nets) }
      [] onNetworks /\ n = 3 /\ segs[3] = <<"create">> /\ req.method = "POST" ->
            { Answer(201, to_string(JObj(<< [k |-> <<"Id">>, v |-> JStr(id)],
                                            [k |-> <<"Warning">>, v |-> JStr(<<>>)] >>)),
                     nets \cup {id}) : id \in Ids \ nets }
            \cup { Answer(409, ErrorText("network with name already exists"), nets) }
      [] onNetworks /\ n = 3 /\ req.method = "GET" ->
            IF segs[3] \in nets
            THEN { Answer(200, to_string(DaemonNetwork(segs[3])), nets) }
            ELSE { Answer(404, ErrorText("no such network"), nets) }
      [] onNetworks /\ n = 3 /\ req.method = "DELETE" ->
            IF segs[3] \in nets
            THEN { Answer(204, <<>>, nets \ {segs[3]}),
                   Answer(403, ErrorText("network has active endpoints"), nets) }
            ELSE { Answer(404, ErrorText("no such network"), nets) }
      [] onNetworks /\ n = 4 /\ segs[4] \in {<<"connect">>, <<"disconnect">>}
            /\ req.method = "POST" ->
            IF segs[3] \in nets
            THEN { Answer(200, <<>>, nets),
                   Answer(403, ErrorText("endpoint already exists in network"), nets),
                   Answer(404, ErrorText("no such container"), nets) }
            ELSE { Answer(404, ErrorText("no such network"), nets) }
      [] OTHER -> { Answer(404, ErrorText("page not found"), nets) }

\* ------------------------------------------------------------ the transport
\* One round trip ends in a transport failure or in the daemon's response.
TransportFailure == [kind |-> "transport_error", status |-> 0, text |-> <<>>]
Response(status, text) == [kind |-> "response", status |-> status, text |-> text]

Ok(v) == [kind |-> "ok", status |-> 0, v |-> v]
Err(kind, status) == [kind |-> kind, status |-> status, v |-> JNull]
Unit == JNull
IsSuccess(status) == status \in 200..299

\* Docker::get / post / delete: the body of a 2xx response, else the error
Transport_text(out) ==
    IF out.kind = "transport_error" THEN Err("transport_error", 0)
    ELSE IF ~IsSuccess(out.status) THEN Err("api_error", out.status)
    ELSE Ok(JStr(out.text))

\* Docker::get_json / post_json: the body of a 2xx response decoded as T
Transport_json(ty, out) ==
    LET r == Transport_text(out) IN
    IF r.kind # "ok" THEN r
    ELSE LET d == from_str_as(ty, out.text) IN
         IF d.ok THEN Ok(d.v) ELSE Err("decode_error", 0)

\* --------------------------------------------------------------- the client
Request(method, path, reqBody) == [method |-> method, path |-> path, body |-> reqBody]

\* Networks::list: "/networks", then "?" and the query if there is one
list_path(opts) ==
    LET query == NetworkListOptions_serialize(opts)
        path == IF query.some THEN << <<"/", "networks">>, query.s >>
                ELSE << <<"/", "networks">> >>
    IN  JoinWith(path, <<"?">>)

list_request(opts) == Request("GET", list_path(opts), None)
list_result(out) == Transport_json(TVec(TStruct(NetworkInfo)), out)

\* Networks::create
create_request(opts) ==
    Request("POST", JoinWith(<< <<"/", "networks", "/", "create">> >>, <<"?">>),
            Some(NetworkCreateOptions_serialize(opts)))
create_result(out) == Transport_json(TStruct(NetworkCreateInfo), out)

\* Network::inspect
inspect_request(id) == Request("GET", <<"/", "networks", "/">> \o id, None)
inspect_result(out) == Transport_json(TStruct(NetworkInfo), out)

\* Network::delete: `.await?; Ok(())`
delete_request(id) == Request("DELETE", <<"/", "networks", "/">> \o id, None)

\* the outcome dropped: Ok(()) whatever the transport returned
delete_result_ignored(out) == Ok(Unit)

delete_result(out) ==
    LET r == Transport_text(out) IN IF r.kind = "ok" THEN Ok(Unit) ELSE r

\* Network::do_connection
do_connection(id, segment, opts) ==
    Request("POST", <<"/", "networks", "/">> \o id \o <<"/">> \o segment,
            Some(ContainerConnectionOptions_serialize(opts)))
do_connection_result(out) ==
    LET r == Transport_text(out) IN IF r.kind = "ok" THEN Ok(Unit) ELSE r

\* connect() posting to the disconnect path
connect_wrong_segment(id, opts) == do_connection(id, <<"disconnect">>, opts)

connect(id, opts) == do_connection(id, <<"connect">>, opts)
disconnect(id, opts) == do_connection(id, <<"disconnect">>, opts)

ResultOf(op, out) ==
    CASE op = "list" -> list_result(out)
      [] op = "create" -> create_result(out)
      [] op = "inspect" -> inspect_result(out)
      [] op = "delete" -> delete_result(out)
      [] OTHER -> do_connection_result(out)

\* ------------------------------------------------------- the attach stream
\* A frame on the wire: 1 byte of stream type, 4 bytes of length (big-endian),
\* the payload.
BE32(n) == << (n \div 16777216) % 256, (n \div 65536) % 256, (n \div 256) % 256, n % 256 >>
FromBE32(b) == b[1] * 16777216 + b[2] * 65536 + b[3] * 256 + b[4]
HeaderLen == 5
EncodeFrame(f) == <<f.disc>> \o BE32(Len(f.payload)) \o f.payload
EncodeFrames(fs) == Flatten([i \in 1..Len(fs) |-> EncodeFrame(fs[i])])

\* TtyChunk and the items of the read-half
StdIn(bytes) == [ok |-> TRUE, tag |-> "StdIn", bytes |-> bytes]
StdOut(bytes) == [ok |-> TRUE, tag |-> "StdOut", bytes |-> bytes]
StdErr(bytes) == [ok |-> TRUE, tag |-> "StdErr", bytes |-> bytes]
ItemErr(e) == [ok |-> FALSE, tag |-> e, bytes |-> <<>>]

\* an input frame handed to the consumer as a chunk
decode_chunk_stdin(disc, payload) ==
    CASE disc = 0 -> StdIn(payload)
      [] disc = 1 -> StdOut(payload)
      [] disc = 2 -> StdErr(payload)
      [] OTHER -> ItemErr("DecodeError")

\* the demultiplexer's reading of one frame
decode_chunk(disc, payload) ==
    CASE disc = 0 -> ItemErr("ProtocolViolation")
      [] disc = 1 -> StdOut(payload)
      [] disc = 2 -> StdErr(payload)
      [] OTHER -> ItemErr("DecodeError")

\* the length of the frame not honoured: all the bytes left taken as its payload
reader_next_merged(bytes, open) ==
    IF ~open \/ bytes = <<>>
    THEN [some |-> FALSE, item |-> ItemErr("none"), rest |-> bytes, open |-> FALSE]
    ELSE IF Len(bytes) < HeaderLen
    THEN [some |-> TRUE, item |-> ItemErr("TransportError"), rest |-> <<>>, open |-> FALSE]
    ELSE LET item == decode_chunk(bytes[1], SubSeq(bytes, HeaderLen + 1, Len(bytes)))
         IN  [some |-> TRUE, item |-> item, rest |-> <<>>,
              open |-> item.tag # "ProtocolViolation"]

\* reader.next(): [some, item, rest, open]. The stream ends when the bytes do; a
\* protocol violation and a truncated frame end it too.
reader_next(bytes, open) ==
    IF ~open \/ bytes = <<>>
    THEN [some |-> FALSE, item |-> ItemErr("none"), rest |-> bytes, open |-> FALSE]
    ELSE IF Len(bytes) < HeaderLen
            \/ Len(bytes) < HeaderLen + FromBE32(SubSeq(bytes, 2, HeaderLen))
    THEN [some |-> TRUE, item |-> ItemErr("TransportError"), rest |-> <<>>, open |-> FALSE]
    ELSE LET n == FromBE32(SubSeq(bytes, 2, HeaderLen))
             item == decode_chunk(bytes[1], SubSeq(bytes, HeaderLen + 1, HeaderLen + n))
         IN  [some |-> TRUE, item |-> item,
              rest |-> SubSeq(bytes, HeaderLen + n + 1, Len(bytes)),
              open |-> item.tag # "ProtocolViolation"]

\* str::from_utf8(&bytes).unwrap_or_default(): the text, or "" when not UTF-8
\* (a byte of 128 or more stands for a sequence that is not UTF-8)
from_utf8_or_default(bytes) ==
    IF \A i \in 1..Len(bytes) : bytes[i] < 128 THEN bytes ELSE <<>>

Line(fd, prefix, text) == [fd |-> fd, prefix |-> prefix, text |-> text]

\* print_chunk: [panic, lines]
print_chunk(chunk) ==
    CASE chunk.tag = "StdOut" ->
            [panic |-> FALSE,
             lines |-> <<Line("stdout", "Stdout: ", from_utf8_or_default(chunk.bytes))>>]
      [] chunk.tag = "StdErr" ->
            [panic |-> FALSE,
             lines |-> <<Line("stderr", "Stdout: ", from_utf8_or_default(chunk.bytes))>>]
      [] OTHER -> [panic |-> TRUE, lines |-> <<>>]

\* the body of main's loop for one item
main_on_item(item) ==
    IF item.ok THEN print_chunk(item)
    ELSE [panic |-> FALSE, lines |-> <<Line("stderr", "Error: ", <<item.tag>>)>>]

\* =================================================== the option values (list)
UrlAlphabet == {"a", " ", "&", "="}
FilterValues == SeqsUpTo(UrlAlphabet, MaxLen)
FilterKeys == {<<"filters">>, <<"scope">>}
FilterParams ==
    {e \in SeqsUpTo([k : FilterKeys, v : FilterValues], Cardinality(FilterKeys)) :
        UniqueKeys(e)}

NotCalled == [called |-> FALSE, query |-> None]
ListAtRest == listOpts = <<>> /\ listQuery = NotCalled
ListVars == <<listOpts, listQuery>>

NoBuilder == [ref |-> 0, calls |-> <<>>]
NoWire == [kind |-> "none", calls |-> <<>>, text |-> <<>>]
BuildersAtRest ==
    /\ heap = <<>>
    /\ ncb = NoBuilder
    /\ ccb = NoBuilder
    /\ built = <<>>
    /\ wire = NoWire
BuilderVars == <<heap, ncb, ccb, built, wire>>

NoBody == [json |-> JNull, text |-> <<>>]
NotDecoded == [done |-> FALSE, ok |-> FALSE, v |-> JNull]
DecodeAtRest == body = NoBody /\ decoded = NotDecoded
DecodeVars == <<body, decoded>>

NoCall == [op |-> "none", id |-> <<>>, opts |-> <<>>]
NoOutcome == [kind |-> "none", status |-> 0, text |-> <<>>]
NoResult == [kind |-> "none", status |-> 0, v |-> JNull]
ClientAtRest ==
    /\ known = {}
    /\ pc = "idle"
    /\ call = NoCall
    /\ sent = <<>>
    /\ outcome = NoOutcome
    /\ result = NoResult
ClientVars == <<known, pc, call, sent, outcome, result>>

AttachAtRest ==
    /\ frames = <<>>
    /\ stream = <<>>
    /\ readerOpen = FALSE
    /\ received = <<>>
    /\ printed = <<>>
    /\ mainpc = "done"
AttachVars == <<frames, stream, readerOpen, received, printed, mainpc>>

InitList ==
    /\ listOpts \in FilterParams
    /\ listQuery = NotCalled
    /\ BuildersAtRest
    /\ DecodeAtRest
    /\ ClientAtRest
    /\ AttachAtRest

ListSerialize ==
    /\ listQuery' = [called |-> TRUE,
                     query |-> NetworkListOptions_serialize(listOpts)]
    /\ UNCHANGED <<listOpts, BuilderVars, DecodeVars, ClientVars, AttachVars>>

NextList == ListSerialize

SpecList == InitList /\ [][NextList]_vars

\* =============================================================== the builders
Names == {<<"net", DQ, BS>>}
Drivers == {<<"bridge">>, <<"overlay">>}
LabelMaps == {<<[k |-> <<"env">>, v |-> JStr(<<"a", DQ>>)]>>}
ContainerIds == {<<"c1">>}
AliasLists == {<< <<"web">> >>, << <<"db">>, <<"web">> >>}

SetterCalls ==
    (IF ncb.ref = 0 THEN 0 ELSE Len(ncb.calls) - 1)
        + (IF ccb.ref = 0 THEN 0 ELSE Len(ccb.calls) - 1)

InitBuilder == ListAtRest /\ BuildersAtRest /\ DecodeAtRest /\ ClientAtRest /\ AttachAtRest

\* NetworkCreateOptions::builder(name)
NetworkBuilder(name) ==
    /\ ncb.ref = 0
    /\ heap' = Append(heap, NetworkCreateOptionsBuilder_new(name))
    /\ ncb' = [ref |-> Len(heap) + 1,
               calls |-> <<[k |-> <<"Name">>, v |-> JStr(name)]>>]
    /\ UNCHANGED <<ccb, built, wire, ListVars, DecodeVars, ClientVars, AttachVars>>

Driver(d) ==
    /\ ncb.ref # 0 /\ SetterCalls < MaxCalls
    /\ heap' = [heap EXCEPT ![ncb.ref] = driver(@, d)]
    /\ ncb' = [ncb EXCEPT !.calls = Append(@, [k |-> <<"Driver">>, v |-> JStr(d)])]
    /\ UNCHANGED <<ccb, built, wire, ListVars, DecodeVars, ClientVars, AttachVars>>

Labels(l) ==
    /\ ncb.ref # 0 /\ SetterCalls < MaxCalls
    /\ heap' = [heap EXCEPT ![ncb.ref] = labels(@, l)]
    /\ ncb' = [ncb EXCEPT !.calls = Append(@, [k |-> <<"Labels">>, v |-> JObj(l)])]
    /\ UNCHANGED <<ccb, built, wire, ListVars, DecodeVars, ClientVars, AttachVars>>

BuildNetwork ==
    /\ ncb.ref # 0 /\ Len(built) < MaxBuilt
    /\ LET c == clone(heap, ncb.ref) IN
       /\ heap' = c.heap
       /\ built' = Append(built, [kind |-> "net", ref |-> c.ref, calls |-> ncb.calls])
    /\ UNCHANGED <<ncb, ccb, wire, ListVars, DecodeVars, ClientVars, AttachVars>>

\* ContainerConnectionOptions::builder(container_id)
ConnectionBuilder(cid) ==
    /\ ccb.ref = 0
    /\ heap' = Append(heap, ContainerConnectionOptionsBuilder_new(cid))
    /\ ccb' = [ref |-> Len(heap) + 1,
               calls |-> <<[k |-> <<"Container">>, v |-> JStr(cid)]>>]
    /\ UNCHANGED <<ncb, built, wire, ListVars, DecodeVars, ClientVars, AttachVars>>

Aliases(a) ==
    /\ ccb.ref # 0 /\ SetterCalls < MaxCalls
    /\ heap' = [heap EXCEPT ![ccb.ref] = aliases(@, a)]
    /\ ccb' = [ccb EXCEPT !.calls =
                  Append(@, [k |-> <<"EndpointConfig">>, v |-> EndpointConfig(a)])]
    /\ UNCHANGED <<ncb, built, wire, ListVars, DecodeVars, ClientVars, AttachVars>>

Force ==
    /\ ccb.ref # 0 /\ SetterCalls < MaxCalls
    /\ heap' = [heap EXCEPT ![ccb.ref] = force(@)]
    /\ ccb' = [ccb EXCEPT !.calls = Append(@, [k |-> <<"Force">>, v |-> JBool(TRUE)])]
    /\ UNCHANGED <<ncb, built, wire, ListVars, DecodeVars, ClientVars, AttachVars>>

BuildConnection ==
    /\ ccb.ref # 0 /\ Len(built) < MaxBuilt
    /\ LET c == clone(heap, ccb.ref) IN
       /\ heap' = c.heap
       /\ built' = Append(built, [kind |-> "conn", ref |-> c.ref, calls |-> ccb.calls])
    /\ UNCHANGED <<ncb, ccb, wire, ListVars, DecodeVars, ClientVars, AttachVars>>

\* serialize() of a built options value
Serialize(i) ==
    /\ wire' = [kind |-> built[i].kind, calls |-> built[i].calls,
                text |-> IF built[i].kind = "net"
                         THEN NetworkCreateOptions_serialize(heap[built[i].ref])
                         ELSE ContainerConnectionOptions_serialize(heap[built[i].ref])]
    /\ UNCHANGED <<heap, ncb, ccb, built, ListVars, DecodeVars, ClientVars, AttachVars>>

NextBuilder ==
    \/ \E name \in Names : NetworkBuilder(name)
    \/ \E d \in Drivers : Driver(d)
    \/ \E l \in LabelMaps : Labels(l)
    \/ BuildNetwork
    \/ \E cid \in ContainerIds : ConnectionBuilder(cid)
    \/ \E a \in AliasLists : Aliases(a)
    \/ Force
    \/ BuildConnection
    \/ \E i \in 1..Len(built) : Serialize(i)

SpecBuilder == InitBuilder /\ [][NextBuilder]_vars

\* ====================================================== decoding a response
InitDecode ==
    /\ \E name \in Names \cup Drivers, v6 \in BOOLEAN, l \in LabelsJson,
          front, back \in ExtraLists, dropped \in Droppable :
          /\ Keys(front) \cap Keys(back) = {}
          /\ LET json == NetworkJson(<<"n1">>, name, v6, l, front, back, dropped)
             IN  body = [json |-> json, text |-> to_string(json)]
    /\ decoded = NotDecoded
    /\ ListAtRest
    /\ BuildersAtRest
    /\ ClientAtRest
    /\ AttachAtRest

\* serde_json::from_str::<NetworkDetails>(body)
DecodeDetails ==
    /\ LET r == from_str_as(TStruct(NetworkDetails), body.text)
       IN  decoded' = [done |-> TRUE, ok |-> r.ok, v |-> r.v]
    /\ UNCHANGED <<body, ListVars, BuilderVars, ClientVars, AttachVars>>

NextDecode == DecodeDetails

SpecDecode == InitDecode /\ [][NextDecode]_vars

\* ================================================================ the client
ListOptions == {<<>>, <<[k |-> <<"filters">>, v |-> <<"a", "=", "&">>]>>}
CreateOptions ==
    {NetworkCreateOptionsBuilder_new(<<"net">>),
     driver(NetworkCreateOptionsBuilder_new(<<"net", DQ>>), <<"bridge">>)}
ConnectionOptions ==
    {ContainerConnectionOptionsBuilder_new(<<"c1">>),
     force(ContainerConnectionOptionsBuilder_new(<<"c1">>)),
     aliases(ContainerConnectionOptionsBuilder_new(<<"c", DQ>>), << <<"web">>, <<"db">> >>)}

Init ==
    /\ known \in SUBSET Ids
    /\ pc = "idle"
    /\ call = NoCall
    /\ sent = <<>>
    /\ outcome = NoOutcome
    /\ result = NoResult
    /\ ListAtRest
    /\ BuildersAtRest
    /\ DecodeAtRest
    /\ AttachAtRest

\* a method builds its request and hands it to the transport, then awaits
Issue(op, id, opts, req) ==
    /\ call' = [op |-> op, id |-> id, opts |-> opts]
    /\ sent' = <<req>>
    /\ pc' = "awaiting"
    /\ outcome' = NoOutcome
    /\ result' = NoResult
    /\ UNCHANGED <<known, ListVars, BuilderVars, DecodeVars, AttachVars>>

List(opts) ==
    /\ pc = "idle"
    /\ Issue("list", <<>>, opts, list_request(opts))
Create(opts) ==
    /\ pc = "idle"
    /\ Issue("create", <<>>, opts, create_request(opts))
Inspect(id) ==
    /\ pc = "idle"
    /\ Issue("inspect", id, <<>>, inspect_request(id))
Delete(id) ==
    /\ pc = "idle"
    /\ Issue("delete", id, <<>>, delete_request(id))
Connect(id, opts) ==
    /\ pc = "idle"
    /\ Issue("connect", id, opts, connect(id, opts))
Disconnect(id, opts) ==
    /\ pc = "idle"
    /\ Issue("disconnect", id, opts, disconnect(id, opts))

\* the awaited round trip ends and the method returns
Return(out, knownAfter) ==
    /\ outcome' = out
    /\ known' = knownAfter
    /\ result' = ResultOf(call.op, out)
    /\ pc' = "idle"
    /\ UNCHANGED <<call, sent, ListVars, BuilderVars, DecodeVars, AttachVars>>

Respond ==
    /\ pc = "awaiting"
    /\ \E a \in DaemonAnswers(sent[Len(sent)], known) :
          Return(Response(a.status, a.text), a.known)

TransportFails ==
    /\ pc = "awaiting"
    /\ Return(TransportFailure, known)

Next ==
    \/ \E opts \in ListOptions : List(opts)
    \/ \E opts \in CreateOptions : Create(opts)
    \/ \E id \in Ids : Inspect(id)
    \/ \E id \in Ids : Delete(id)
    \/ \E id \in Ids, opts \in ConnectionOptions : Connect(id, opts)
    \/ \E id \in Ids, opts \in ConnectionOptions : Disconnect(id, opts)
    \/ Respond
    \/ TransportFails

Spec == Init /\ [][Next]_vars

\* ============================================================ the attach loop
PayloadBytes == {1, 104}
Discriminants == {0, 1, 2, 3}
DrawnFrames == [disc : Discriminants, payload : SeqsUpTo(PayloadBytes, MaxPayload)]
\* the stream of the example: [1, "hello"], [2, "err"]
HelloErr ==
    << [disc |-> 1, payload |-> <<104, 101, 108, 108, 111>>],
       [disc |-> 2, payload |-> <<101, 114, 114>>] >>

InitAttach ==
    /\ frames \in SeqsUpTo(DrawnFrames, MaxFrames) \cup {HelloErr}
    /\ stream = EncodeFrames(frames)
    /\ readerOpen = TRUE
    /\ received = <<>>
    /\ printed = <<>>
    /\ mainpc = "loop"
    /\ ListAtRest
    /\ BuildersAtRest
    /\ DecodeAtRest
    /\ ClientAtRest

\* one turn of `while let Some(tty_result) = reader.next().await`
MainLoop ==
    /\ mainpc = "loop"
    /\ LET nx == reader_next(stream, readerOpen) IN
       /\ stream' = nx.rest
       /\ readerOpen' = nx.open
       /\ IF ~nx.some
          THEN /\ mainpc' = "done"
               /\ UNCHANGED <<received, printed>>
          ELSE LET did == main_on_item(nx.item) IN
               /\ received' = Append(received, nx.item)
               /\ printed' = printed \o did.lines
               /\ mainpc' = IF did.panic THEN "panicked" ELSE "loop"
    /\ UNCHANGED <<frames, ListVars, BuilderVars, DecodeVars, ClientVars>>

NextAttach == MainLoop

SpecAttach == InitAttach /\ [][NextAttach]_vars

\* ==================================================================== claims
\* C1: serialize() is None exactly for the empty map; otherwise the query string,
\* parsed back, holds exactly the inserted pairs, each once.
C1_SerializeExact ==
    listQuery.called =>
        /\ (~listQuery.query.some) <=> (listOpts = <<>>)
        /\ listQuery.query.some =>
              LET parsed == ParseQuery(listQuery.query.s) IN
              /\ Len(parsed) = Len(listOpts)
              /\ \A i \in 1..Len(parsed) : parsed[i] = listOpts[i]

C1_Witness ==
    /\ listQuery.called
    /\ Len(listOpts) = 2
    /\ \E i \in 1..2 : "&" \in {listOpts[i].v[j] : j \in 1..Len(listOpts[i].v)}
    /\ listQuery.query.some

\* C2: a setter called twice on one key overwrites: every built snapshot holds one
\* entry per key set on the builder, with the value of the last call for that key.
C2_SetterOverwrites ==
    \A i \in 1..Len(built) :
        LET params == heap[built[i].ref]
            calls == built[i].calls
        IN  /\ UniqueKeys(params)
            /\ Keys(params) = Keys(calls)
            /\ \A k \in Keys(calls) : Lookup(params, k) = LastValue(calls, k)

C2_Witness ==
    /\ \E i \in 1..Len(built) :
          /\ built[i].kind = "conn"
          /\ \E x, y \in 1..Len(built[i].calls) :
                /\ x < y
                /\ built[i].calls[x].k = built[i].calls[y].k
                /\ built[i].calls[x].v # built[i].calls[y].v

\* C3: a built NetworkCreateOptions, serialized and parsed back as generic JSON, is
\* an object whose keys are exactly the keys set on the builder (Name and the keys of
\* the setters called), each once.
C3_CreateRoundTrip ==
    wire.kind = "net" =>
        LET r == from_str(wire.text) IN
        /\ r.ok
        /\ r.v.t = "obj"
        /\ UniqueKeys(r.v.kids)
        /\ Keys(r.v.kids) = Keys(wire.calls)

C3_Witness ==
    /\ wire.kind = "net"
    /\ Keys(wire.calls) = {<<"Name">>, <<"Driver">>, <<"Labels">>}
    /\ Len(wire.calls) > 3

\* C4: build() is a defensive copy: no step changes the map of a value already
\* built, and a build() step leaves the builders' maps as they were and hands out
\* the entries the builder held.
C4_BuildSnapshot ==
    [][/\ \A i \in 1..Len(built) :
             built'[i] = built[i] /\ heap'[built[i].ref] = heap[built[i].ref]
       /\ Len(built') > Len(built) =>
             /\ ncb' = ncb /\ ccb' = ccb
             /\ \A a \in 1..Len(heap) : heap'[a] = heap[a]
             /\ LET b == built'[Len(built')] IN
                heap'[b.ref] = heap[IF b.kind = "net" THEN ncb.ref ELSE ccb.ref]]_vars

C4_Witness ==
    \E i \in 1..Len(built) :
        /\ built[i].kind = "net"
        /\ Len(ncb.calls) > Len(built[i].calls)
        /\ heap[ncb.ref] # heap[built[i].ref]

\* C9: a body that holds every documented field of NetworkDetails, and fields the
\* client does not know besides, decodes, and every known field holds the body's
\* value.
DocumentedNames ==
    { << <<"name">>, <<"Name">> >>, << <<"id">>, <<"Id">> >>,
      << <<"scope">>, <<"Scope">> >>, << <<"driver">>, <<"Driver">> >>,
      << <<"enable", "ipv6">>, <<"Enable", "IPv6">> >>,
      << <<"internal">>, <<"Internal">> >>, << <<"attachable">>, <<"Attachable">> >>,
      << <<"options">>, <<"Options">> >>, << <<"labels">>, <<"Labels">> >>,
      << <<"ipam">>, <<"IPAM">> >>, << <<"containers">>, <<"Containers">> >> }
NestedNames == {<<"ipam">>, <<"containers">>}
AllDocumented(json) ==
    \A d \in DocumentedNames : Cardinality(Occurrences(json.kids, d[2])) = 1
HasExtra(json) ==
    \E i \in 1..Len(json.kids) : \A d \in DocumentedNames : json.kids[i].k # d[2]

C9_ExtraFieldsIgnored ==
    (decoded.done /\ AllDocumented(body.json)) =>
        /\ decoded.ok
        /\ Keys(decoded.v.kids) = {d[1] : d \in DocumentedNames}
        /\ \A d \in DocumentedNames :
              d[1] \notin NestedNames =>
                  Lookup(decoded.v.kids, d[1]) = Lookup(body.json.kids, d[2])
        /\ Lookup(Lookup(decoded.v.kids, <<"ipam">>).kids, <<"driver">>)
              = Lookup(Lookup(body.json.kids, <<"IPAM">>).kids, <<"Driver">>)
        /\ Lookup(Lookup(Lookup(decoded.v.kids, <<"containers">>).kids, <<"c1">>).kids,
                  <<"endpoint", "id">>)
              = Lookup(Lookup(Lookup(body.json.kids, <<"Containers">>).kids, <<"c1">>).kids,
                       <<"Endpoint", "ID">>)

C9_Witness ==
    /\ decoded.done /\ decoded.ok
    /\ AllDocumented(body.json)
    /\ HasExtra(body.json)
    /\ Len(body.json.kids) = 13

\* C5: connect and disconnect issue a POST to /networks/{id}/connect and
\* /networks/{id}/disconnect, the body being the options as JSON; the paths differ
\* in the last segment only, and a rejection by the daemon comes back as an error.
C5_ConnectionRequest ==
    call.op \in {"connect", "disconnect"} =>
        /\ Len(sent) = 1
        /\ sent[1].method = "POST"
        /\ sent[1].path = <<"/", "networks", "/">> \o call.id \o <<"/", call.op>>
        /\ sent[1].body.some
        /\ LET r == from_str(sent[1].body.s) IN r.ok /\ r.v = JObj(call.opts)
        /\ (pc = "idle" /\ outcome.kind = "response" /\ outcome.status \notin 200..299) =>
              result.kind = "api_error" /\ result.status = outcome.status

C5_Witness ==
    /\ call.op = "connect"
    /\ Len(call.opts) = 2
    /\ pc = "idle"
    /\ outcome.kind = "response" /\ outcome.status = 403
    /\ result.kind = "api_error"

\* C6: inspect() of an id the daemon does not know returns an ApiError saying not
\* found; of an id it knows, inspect() issues GET /networks/{id} and returns the
\* details decoded from the response.
C6_InspectDetails ==
    (call.op = "inspect" /\ pc = "idle" /\ outcome.kind = "response") =>
        /\ sent = <<Request("GET", <<"/", "networks", "/">> \o call.id, None)>>
        /\ IF call.id \in known
           THEN result.kind = "ok" /\ result.v.t = "obj"
           ELSE result.kind = "api_error" /\ result.status = 404

\* C10: a call issues one request; when the round trip ends in an error of the
\* daemon or of the transport, that error is what the caller gets, and no second
\* request is issued.
C10_SingleRoundTrip ==
    call.op # "none" =>
        /\ Len(sent) = 1
        /\ pc = "idle" =>
              /\ outcome.kind = "transport_error" => result.kind = "transport_error"
              /\ (outcome.kind = "response" /\ outcome.status \notin 200..299) =>
                    result.kind = "api_error" /\ result.status = outcome.status
              /\ result.kind = "ok" =>
                    outcome.kind = "response" /\ outcome.status \in 200..299

C10_Witness ==
    /\ call.op = "delete"
    /\ pc = "idle"
    /\ outcome.kind = "response" /\ outcome.status = 403
    /\ result.kind = "api_error"
    /\ Len(sent) = 1

\* C7: when every frame is a stdout (1) or stderr (2) frame, main receives one chunk
\* per frame, in the order of the frames, StdOut for 1 and StdErr for 2, with the
\* payload of that frame, and writes it to the stream of its tag.
OutputOnly == \A i \in 1..Len(frames) : frames[i].disc \in {1, 2}
ChunkOf(f) ==
    [ok |-> TRUE, tag |-> IF f.disc = 1 THEN "StdOut" ELSE "StdErr", bytes |-> f.payload]

C7_OneChunkPerFrame ==
    OutputOnly =>
        /\ Len(received) <= Len(frames)
        /\ \A i \in 1..Len(received) : received[i] = ChunkOf(frames[i])
        /\ Len(printed) = Len(received)
        /\ \A i \in 1..Len(printed) :
              printed[i].fd = (IF frames[i].disc = 1 THEN "stdout" ELSE "stderr")
        /\ mainpc # "panicked"
        /\ mainpc = "done" => Len(received) = Len(frames)

C7_Witness ==
    /\ frames = HelloErr
    /\ mainpc = "done"
    /\ received = <<StdOut(<<104, 101, 108, 108, 111>>), StdErr(<<101, 114, 114>>)>>

\* C8: an input frame (0) on the read-half comes out as the error
\* ProtocolViolation and ends the stream: it is not dropped, not handed on as a
\* chunk, and nothing after it is delivered.
FirstInput ==
    IF \E i \in 1..Len(frames) : frames[i].disc = 0
    THEN CHOOSE i \in 1..Len(frames) :
             frames[i].disc = 0 /\ \A j \in 1..(i-1) : frames[j].disc # 0
    ELSE 0

====
